---- MODULE Spec2Model ----
(***************************************************************************)
(* EventServerSession (DevDriver event protocol, server side): the session *)
(* state machine of UpdateSession, its three request handlers and the      *)
(* event-streaming drain SendEventData, together with the collaborators    *)
(* the session talks to (transport, transfer manager, event server).       *)
(***************************************************************************)
EXTENDS Integers, Sequences, FiniteSets, TLC

\* ------------------------------------------------------------------ bounds
MaxRequests  == 2   \* requests the client sends over the session's life
MaxChunks    == 2   \* event chunks the producers enqueue over the session's life
MaxBlockSize == 2   \* largest GetBlockDataSize() of an update block
MaxSlices    == 3   \* full messages of the longest chunk of SpecSlices
MaxScreenCalls == 5 \* AcquireScreenAccess / ReleaseScreenAccess calls on the Screen
MaxFds       == 2   \* file descriptors the window system may hand out

\* ------------------------------------------------------- program constants
kMaxEventDataSize == 2   \* payload capacity of one EventDataUpdatePayload (scaled)
kInvalidBlockId   == 0   \* TransferProtocol::kInvalidBlockId
NullBlock         == 0   \* m_pUpdateBlock.IsNull()
InvalidFd         == -1  \* Util::InvalidFd

\* largest dataSize of an event chunk: one byte more than one message carries, so
\* that chunks of one message and of two messages both occur
MaxChunkSize == kMaxEventDataSize + 1

Results  == {"Success", "NotReady", "EndOfStream", "Error"}
Failures == Results \ {"Success"}
\* block ids of the transfer manager: a request opens at most one block
BlockIds == 1..MaxRequests

Requests == {"QueryProvidersRequest", "AllocateProviderUpdatesRequest",
             "ApplyProviderUpdatesRequest"}
\* a header whose command is none of the three (default: of the dispatch switch)
Commands == Requests \cup {"UnknownCommand"}

\* mutant: the larger of the two is taken
Min_TakesLarger(a, b) == IF a < b THEN b ELSE a

Min(a, b) == IF a < b THEN a ELSE b

VARIABLES
    m_state,                \* SessionState
    m_payloadContainer,     \* request / response buffer
    m_eventPayloadContainer,\* outbound event message buffer
    m_eventPayloadPending,  \* event message built but not yet sent
    m_pUpdateBlock,         \* block handle held by the session (NullBlock: none)
    m_eventChunkQueue,      \* EventServer::m_eventChunkQueue
    openBlocks,             \* transfer manager: server blocks opened by the session, not closed
    enqueued,               \* number of chunks produced so far
    alive,                  \* the session object exists
    aborted,                \* a DD_ASSERT stopped the process
    hung,                   \* an UpdateSession call never returns
    recvLog,                \* history: commands of the requests received, in order
    respLog,                \* history: responses sent on the transport, in order
    evLog,                  \* history: EventDataUpdate messages sent on the transport
    freeLog,                \* history: chunks handed to FreeEventChunk
    allocLog,               \* history: outcomes of HandleAllocateProviderUpdatesRequest
    closeLog,               \* history: blocks handed to CloseServerBlock
    lastCall,               \* history: what the last operation was and what it met
    m_drmMasterFd,          \* Screen: DRM master fd of the leased screen (InvalidFd: none)
    osOpenFds,              \* fds the window system opened for the screen, not closed
    wsCalls,                \* history: calls of WindowSystem::AcquireScreenAccess
    fdCloses,               \* history: fds handed to close()
    screenLog               \* history: the Screen calls made and their results

vars == <<m_state, m_payloadContainer, m_eventPayloadContainer, m_eventPayloadPending,
          m_pUpdateBlock, m_eventChunkQueue, openBlocks, enqueued, alive,
          aborted, hung, recvLog, respLog, evLog, freeLog, allocLog, closeLog, lastCall,
          m_drmMasterFd, osOpenFds, wsCalls, fdCloses, screenLog>>

screenVars == <<m_drmMasterFd, osOpenFds, wsCalls, fdCloses, screenLog>>

sessionVars == <<m_state, m_payloadContainer, m_eventPayloadContainer,
                 m_eventPayloadPending, m_pUpdateBlock>>

\* ------------------------------------------------------------ containers
EmptyContainer == [command |-> "None", reqId |-> 0, result |-> "None", blockId |-> kInvalidBlockId]
EmptyEvent     == [chunk |-> 0, offset |-> 0, size |-> 0]

\* container.CreatePayload<...Response>(result, blockId): overwrites the request in place
CreatePayload(container, command, result, blockId) ==
    [command |-> command, reqId |-> container.reqId, result |-> result, blockId |-> blockId]

\* lastCall: the operation that ran last (op), the result of its ReceivePayload
\* (recv), the result of its re-send of the pending event message (retry, "None"
\* when there was none), the Send calls it made (sends), the result of the last (sent),
\* whether a DD_ASSERT failed in it, and for an ApplyProviderUpdates walk the block
\* size, the final byteOffset and the offsets of the records applied.
NoCall == [op |-> "None", recv |-> "None", retry |-> "None", sends |-> 0, sent |-> "None",
           assertFailed |-> FALSE, walkSize |-> 0, walkEnd |-> 0, applied |-> <<>>, nexts |-> <<>>, results |-> <<>>]

\* ------------------------------------------------------------- transport
\* m_pSession->Send(..., kNoWait) as one UpdateSession call sees it: the first k
\* sends of the call succeed and every later one returns r. A drain stops at its
\* first send that does not succeed, so (k, r) covers every sequence of results.
SendResult(n, k, r) == IF n < k THEN "Success" ELSE r

\* ------------------------------------------------------- SendEventData
\* The drain works on a record s:
\*   pending, buf   m_eventPayloadPending, m_eventPayloadContainer
\*   queue          m_eventChunkQueue, each entry [id, dataSize, bytesSent]
\*   result         the local variable result
\*   n              sends made by this call so far
\*   ev, freed      evLog, freeLog; a freeLog entry records the chunk's cursor, the
\*                  bytes of it sent with Success so far (confirmed) and the bytes of
\*                  it waiting in the pending event message (held)
\*   retry, built   result of the re-send of the pending message; slices built
\*   assertFailed   a DD_ASSERT of the drain did not hold
\*   stopped        the failing DD_ASSERT stopped the process (assertsBreak build)
BytesOf(ev, id) ==
    LET idx == {i \in 1..Len(ev) : ev[i].chunk = id}
        RECURSIVE Sum(_)
        Sum(S) == IF S = {} THEN 0
                  ELSE LET i == CHOOSE x \in S : TRUE IN ev[i].size + Sum(S \ {i})
    IN Sum(idx)

\* one m_pSession->Send of the event payload container
SendEvent(s, k, r) ==
    LET res == SendResult(s.n, k, r)
    IN [s EXCEPT !.n = @ + 1, !.result = res,
                 !.ev = IF res = "Success" THEN Append(@, s.buf) ELSE @]

\* eventQueue.PopFront(); m_pServer->FreeEventChunk(pChunk);
PopAndFree(s) ==
    LET c == Head(s.queue)
    IN [s EXCEPT !.queue = Tail(@),
                 !.freed = Append(@, [chunk |-> c.id, dataSize |-> c.dataSize,
                                      bytesSent |-> c.bytesSent,
                                      confirmed |-> BytesOf(s.ev, c.id),
                                      held |-> IF s.pending /\ (s.buf.chunk = c.id)
                                               THEN s.buf.size ELSE 0])]

\* mutant: a slice whose send failed is not marked pending
RECURSIVE WriteChunk_NoPending(_, _, _)
WriteChunk_NoPending(s, k, r) ==
    LET c == Head(s.queue)
        bytesRemaining == c.dataSize - c.bytesSent
    IN IF bytesRemaining > 0
       THEN LET bytesToSend == Min(bytesRemaining, kMaxEventDataSize)
                payload == [chunk |-> c.id, offset |-> c.bytesSent, size |-> bytesToSend]
                s1 == [s EXCEPT !.buf = payload,
                                !.queue = <<[c EXCEPT !.bytesSent = @ + bytesToSend]>> \o Tail(@),
                                !.built = @ + 1]
                s2 == SendEvent(s1, k, r)
            IN IF s2.result # "Success"
               THEN s2
               ELSE WriteChunk_NoPending(s2, k, r)
       ELSE s

\* lines 239-258: write as much of the front chunk into packets as we can
RECURSIVE WriteChunk(_, _, _)
WriteChunk(s, k, r) ==
    LET c == Head(s.queue)
        bytesRemaining == c.dataSize - c.bytesSent
    IN IF bytesRemaining > 0
       THEN LET bytesToSend == Min(bytesRemaining, kMaxEventDataSize)
                payload == [chunk |-> c.id, offset |-> c.bytesSent, size |-> bytesToSend]
                s1 == [s EXCEPT !.buf = payload,
                                !.queue = <<[c EXCEPT !.bytesSent = @ + bytesToSend]>> \o Tail(@),
                                !.built = @ + 1]
                s2 == SendEvent(s1, k, r)
            IN IF s2.result # "Success"
               THEN [s2 EXCEPT !.pending = TRUE]
               ELSE WriteChunk(s2, k, r)
       ELSE s

\* mutant: the NotReady branch pops the chunk whatever is left of it
PopOnNotReady_Always(bytesRemaining) == TRUE

\* line 276: on NotReady the chunk leaves the queue when all its bytes were packed
PopOnNotReady(bytesRemaining) == bytesRemaining = 0

\* mutant: a chunk whose slice met an unexpected result is dropped from the queue
BreakOnFailure_Pop(s) == PopAndFree(s)

\* lines 286-290: any other result ends the loop; the chunk stays where it is
BreakOnFailure(s) == s

\* lines 223-291: the loop over the queue
RECURSIVE DrainQueue(_, _, _)
DrainQueue(s, k, r) ==
    IF s.queue = <<>> THEN s
    ELSE LET c == Head(s.queue)
             assertOk == (c.dataSize > 0) /\ (c.dataSize - c.bytesSent > 0)
             s0 == [s EXCEPT !.assertFailed = @ \/ ~assertOk]
         IN IF ~assertOk /\ s.brk
            THEN [s0 EXCEPT !.stopped = TRUE]
            ELSE LET s1 == WriteChunk(s0, k, r)
                     c1 == Head(s1.queue)
                     bytesRemaining == c1.dataSize - c1.bytesSent
                 IN IF s1.result = "Success"
                    THEN DrainQueue(PopAndFree(s1), k, r)
                    ELSE IF s1.result = "NotReady"
                    THEN (IF PopOnNotReady(bytesRemaining) THEN PopAndFree(s1) ELSE s1)
                    ELSE BreakOnFailure(s1)

\* mutant: the pending event message is dropped instead of being sent again
RetryPending_Drop(s, k, r) == [s EXCEPT !.pending = FALSE, !.result = "Success"]

\* mutant: the pending flag is cleared whatever the re-send returned
RetryPending_ClearAlways(s, k, r) ==
    IF s.pending
    THEN LET s1 == SendEvent(s, k, r)
         IN [s1 EXCEPT !.retry = s1.result, !.pending = FALSE, !.result = "Success"]
    ELSE [s EXCEPT !.result = "Success"]

\* mutant: the event buffer is sent without looking at the pending flag
RetryPending_Always(s, k, r) ==
    LET s1 == SendEvent(s, k, r)
    IN [s1 EXCEPT !.retry = s1.result,
                  !.pending = IF s1.result = "Success" THEN FALSE ELSE @]

\* lines 209-216: re-send the pending event message
RetryPending(s, k, r) ==
    IF s.pending
    THEN LET s1 == SendEvent(s, k, r)
         IN [s1 EXCEPT !.retry = s1.result,
                       !.pending = IF s1.result = "Success" THEN FALSE ELSE @]
    ELSE [s EXCEPT !.result = "Success"]

\* mutant: the queue is drained although the re-send failed
DrainAllowed_IgnoreResult(result, queue) == queue # <<>>

\* line 221: the queue is drained only when nothing failed so far
DrainAllowed(result, queue) == (result = "Success") /\ (queue # <<>>)

SendEventData(s, k, r) ==
    LET s1 == RetryPending(s, k, r)
    IN IF DrainAllowed(s1.result, s1.queue) THEN DrainQueue(s1, k, r) ELSE s1

DrainState(pending, buf, queue, ev, freed, brk) ==
    [pending |-> pending, buf |-> buf, queue |-> queue, ev |-> ev, freed |-> freed,
     brk |-> brk, result |-> "Success", n |-> 0, retry |-> "None", built |-> 0,
     assertFailed |-> FALSE, stopped |-> FALSE]

\* ------------------------------------------------------ request handlers
\* m_pServer->BuildQueryProvidersResponse(&blockId): the catalogue is serialized
\* into a block of the server, or the build fails and blockId keeps its value.
BuildQueryProvidersResponse(blockId) ==
    {[result |-> "Success", blockId |-> b] : b \in BlockIds}
        \cup {[result |-> "Error", blockId |-> blockId]}

\* lines 142-150; built is the outcome of BuildQueryProvidersResponse
HandleQueryProvidersRequest(container, built) ==
    [container |-> CreatePayload(container, "QueryProvidersResponse",
                                 built.result, built.blockId),
     state     |-> "SendPayload"]

\* m_pTransferManager->OpenServerBlock(): a block not open yet, or null
OpenServerBlock(open) == (BlockIds \ open) \cup {NullBlock}

\* mutant: the handler opens a block without looking at the one it holds
HandleAllocate_NoNullCheck(container, block, open, opened) ==
    LET ok      == opened # NullBlock
        result  == IF ok THEN "Success" ELSE "Error"
        blockId == IF ok THEN opened ELSE kInvalidBlockId
    IN [container |-> CreatePayload(container, "AllocateProviderUpdatesResponse",
                                    result, blockId),
        state     |-> "SendPayload",
        block     |-> opened,
        open      |-> IF ok THEN open \cup {opened} ELSE open]

\* mutant: with a block already open the handler answers Success with its id
HandleAllocate_ReturnExisting(container, block, open, opened) ==
    LET calls   == block = NullBlock
        block1  == IF calls THEN opened ELSE block
        ok      == block1 # NullBlock
        result  == IF ok THEN "Success" ELSE "Error"
        blockId == IF ok THEN block1 ELSE kInvalidBlockId
    IN [container |-> CreatePayload(container, "AllocateProviderUpdatesResponse",
                                    result, blockId),
        state     |-> "SendPayload",
        block     |-> block1,
        open      |-> IF ok THEN open \cup {block1} ELSE open]

\* lines 152-172; opened is what OpenServerBlock returns when it is called
HandleAllocateProviderUpdatesRequest(container, block, open, opened) ==
    LET calls   == block = NullBlock
        block1  == IF calls THEN opened ELSE block
        ok      == calls /\ (block1 # NullBlock)
        result  == IF ok THEN "Success" ELSE "Error"
        blockId == IF ok THEN block1 ELSE kInvalidBlockId
    IN [container |-> CreatePayload(container, "AllocateProviderUpdatesResponse",
                                    result, blockId),
        state     |-> "SendPayload",
        block     |-> block1,
        open      |-> IF ok THEN open \cup {block1} ELSE open]

\* m_pServer->ApplyProviderUpdate: the call-th call of a walk fails with failRes
\* when call = failAt (failAt = 0: no call fails)
MaxApplyCalls == MaxBlockSize + 1
ApplyProviderUpdate(call, failAt, failRes) == IF call = failAt THEN failRes ELSE "Success"

\* mutant: the walk goes on after a record failed to apply
RECURSIVE WalkBlock_IgnoreFailure(_, _, _, _, _)
WalkBlock_IgnoreFailure(w, size, next, failAt, failRes) ==
    IF w.byteOffset < size
    THEN LET off  == w.byteOffset
             call == Len(w.applied) + 1
             res  == ApplyProviderUpdate(call, failAt, failRes)
             w1   == [w EXCEPT !.result = res, !.applied = Append(@, off),
                               !.nexts = Append(@, next[off]),
                               !.results = Append(@, res),
                               !.byteOffset = @ + next[off]]
         IN IF (next[off] = 0) /\ ((failAt = 0) \/ (failAt < call))
            THEN [w1 EXCEPT !.hung = TRUE]
            ELSE WalkBlock_IgnoreFailure(w1, size, next, failAt, failRes)
    ELSE w

\* lines 182-191: the walk over the block's records. next[o] is
\* GetNextProviderUpdateOffset() of the record at byte offset o. A record whose
\* offset is 0 is applied again and again; when no later call fails the loop
\* never exits (hung). applied, nexts and results list, call by call, the offset
\* of the record handed to ApplyProviderUpdate, the next-record offset read from
\* it and the result of the call.
RECURSIVE WalkBlock(_, _, _, _, _)
WalkBlock(w, size, next, failAt, failRes) ==
    IF (w.byteOffset < size) /\ (w.result = "Success")
    THEN LET off  == w.byteOffset
             call == Len(w.applied) + 1
             res  == ApplyProviderUpdate(call, failAt, failRes)
             w1   == [w EXCEPT !.result = res, !.applied = Append(@, off),
                               !.nexts = Append(@, next[off]),
                               !.results = Append(@, res),
                               !.byteOffset = @ + next[off]]
         IN IF (next[off] = 0) /\ (res = "Success") /\ ((failAt = 0) \/ (failAt < call))
            THEN [w1 EXCEPT !.hung = TRUE]
            ELSE WalkBlock(w1, size, next, failAt, failRes)
    ELSE w

\* lines 174-203; size and next are the block's GetBlockDataSize() and contents
HandleApplyProviderUpdatesRequest(container, block, brk, size, next, failAt, failRes) ==
    LET w0 == [byteOffset |-> 0, result |-> "Success", applied |-> <<>>,
               nexts |-> <<>>, results |-> <<>>, hung |-> FALSE]
        w  == IF block # NullBlock
              THEN WalkBlock(w0, size, next, failAt, failRes)
              ELSE [w0 EXCEPT !.result = "Error"]
        \* DD_ASSERT(byteOffset == m_pUpdateBlock->GetBlockDataSize())
        assertFailed == (block # NullBlock) /\ ~w.hung /\ (w.result = "Success")
                            /\ (w.byteOffset # size)
    IN [container |-> IF w.hung \/ (assertFailed /\ brk) THEN container
                      ELSE CreatePayload(container, "ApplyProviderUpdatesResponse",
                                         w.result, kInvalidBlockId),
        state     |-> IF w.hung \/ (assertFailed /\ brk) THEN "ProcessPayload"
                      ELSE "SendPayload",
        walk      |-> w,
        assertFailed |-> assertFailed,
        stopped   |-> assertFailed /\ brk /\ ~w.hung,
        hung      |-> w.hung]

\* mutant: a closed stream is taken for a received request
ReceiveNext_ProcessOnEndOfStream(result) ==
    IF result \in {"Success", "EndOfStream"} THEN "ProcessPayload" ELSE "ReceivePayload"

\* lines 74-77: the receive result decides the next state
ReceiveNext(result) == IF result = "Success" THEN "ProcessPayload" ELSE "ReceivePayload"

\* mutant: the drain runs whenever no request was received
DrainOnReceive_AnyFailure(result) == result # "Success"

\* lines 86-89: the drain runs on NotReady only
DrainOnReceive(result) == result = "NotReady"

\* mutant: a response whose send returned NotReady is given up
SendNext_DropOnNotReady(result) ==
    IF result \in {"Success", "NotReady"} THEN "ReceivePayload" ELSE "SendPayload"

\* mutant: a response whose send failed for good is given up
SendNext_DropOnError(result) ==
    IF result = "NotReady" THEN "SendPayload" ELSE "ReceivePayload"

\* lines 127-130: the response leaves the session on Success only
SendNext(result) == IF result = "Success" THEN "ReceivePayload" ELSE "SendPayload"

\* ------------------------------------------------------------------ Init
Init ==
    /\ m_state = "ReceivePayload"
    /\ m_payloadContainer = EmptyContainer
    /\ m_eventPayloadContainer = EmptyEvent
    /\ m_eventPayloadPending = FALSE
    /\ m_pUpdateBlock = NullBlock
    /\ m_eventChunkQueue = <<>>
    /\ openBlocks = {}
    /\ enqueued = 0
    /\ alive = TRUE
    /\ aborted = FALSE
    /\ hung = FALSE
    /\ recvLog = <<>>
    /\ respLog = <<>>
    /\ evLog = <<>>
    /\ freeLog = <<>>
    /\ allocLog = <<>>
    /\ closeLog = <<>>
    /\ lastCall = NoCall
    /\ m_drmMasterFd = InvalidFd
    /\ osOpenFds = {}
    /\ wsCalls = 0
    /\ fdCloses = <<>>
    /\ screenLog = <<>>

Running == alive /\ ~aborted /\ ~hung

\* --------------------------------------------------------------- actions
\* a producer logs events: the event server appends a filled chunk to the queue
EnqueueSized(limit, maxSize) ==
    /\ Running
    /\ enqueued < limit
    /\ \E size \in 1..maxSize :
          m_eventChunkQueue' = Append(m_eventChunkQueue,
                                      [id |-> enqueued + 1, dataSize |-> size, bytesSent |-> 0])
    /\ enqueued' = enqueued + 1
    /\ lastCall' = [NoCall EXCEPT !.op = "Enqueue"]
    /\ UNCHANGED screenVars
    /\ UNCHANGED <<sessionVars, openBlocks, alive, aborted, hung,
                   recvLog, respLog, evLog, freeLog, allocLog, closeLog>>

Enqueue(limit) == EnqueueSized(limit, MaxChunkSize)

\* the Send calls a drain makes when every send succeeds
RECURSIVE SendsNeeded(_)
SendsNeeded(queue) ==
    IF queue = <<>> THEN 0
    ELSE LET c == Head(queue)
             bytesRemaining == c.dataSize - c.bytesSent
         IN ((bytesRemaining + kMaxEventDataSize - 1) \div kMaxEventDataSize)
                + SendsNeeded(Tail(queue))

\* the transport results a drain can meet: k sends succeed, the next returns r
DrainInputs(pending, queue) ==
    LET needed == (IF pending THEN 1 ELSE 0) + SendsNeeded(queue)
    IN {<<k, r>> : k \in 0..(needed - 1), r \in Failures} \cup {<<needed, "NotReady">>}

\* a failing DD_ASSERT stops the process (asserts break) or is compiled out
AssertOutcomes(failed) == IF failed THEN BOOLEAN ELSE {FALSE}

\* UpdateSession, case SessionState::ReceivePayload (lines 70-92):
\* ReceivePayload returned Success with a request of the given command
UpdateSessionReceive(limit) ==
    /\ Running
    /\ m_state = "ReceivePayload"
    /\ Len(recvLog) < limit
    /\ \E command \in Commands :
          /\ m_payloadContainer' =
                [EmptyContainer EXCEPT !.command = command, !.reqId = Len(recvLog) + 1]
          /\ recvLog' = Append(recvLog, command)
    /\ m_state' = ReceiveNext("Success")
    /\ lastCall' = [NoCall EXCEPT !.op = "Receive", !.recv = "Success"]
    /\ UNCHANGED screenVars
    /\ UNCHANGED <<m_eventPayloadContainer, m_eventPayloadPending, m_pUpdateBlock,
                   m_eventChunkQueue, openBlocks, enqueued, alive, aborted, hung,
                   respLog, evLog, freeLog, allocLog, closeLog>>

\* the same case, ReceivePayload returned NotReady, EndOfStream or Error
UpdateSessionIdle ==
    /\ Running
    /\ m_state = "ReceivePayload"
    /\ \E result \in Failures :
       \E in \in (IF DrainOnReceive(result)
                  THEN DrainInputs(m_eventPayloadPending, m_eventChunkQueue)
                  ELSE {<<0, "NotReady">>}) :
          LET d0 == DrainState(m_eventPayloadPending, m_eventPayloadContainer,
                               m_eventChunkQueue, evLog, freeLog, FALSE)
              dry == IF DrainOnReceive(result) THEN SendEventData(d0, in[1], in[2]) ELSE d0
          IN \E brk \in AssertOutcomes(dry.assertFailed) :
                LET d == IF brk
                         THEN SendEventData([d0 EXCEPT !.brk = TRUE], in[1], in[2])
                         ELSE dry
                IN /\ m_state' = ReceiveNext(result)
                   /\ m_eventPayloadPending' = d.pending
                   /\ m_eventPayloadContainer' = d.buf
                   /\ m_eventChunkQueue' = d.queue
                   /\ evLog' = d.ev
                   /\ freeLog' = d.freed
                   /\ aborted' = d.stopped
                   /\ lastCall' = [NoCall EXCEPT !.op = "Idle", !.recv = result,
                                      !.retry = d.retry, !.sends = d.n,
                                      !.sent = IF d.n = 0 THEN "None" ELSE d.result,
                                      !.assertFailed = d.assertFailed]
    /\ UNCHANGED screenVars
    /\ UNCHANGED <<m_payloadContainer, m_pUpdateBlock, openBlocks, enqueued, alive, hung,
                   recvLog, respLog, allocLog, closeLog>>

ProcessFrame == <<m_eventPayloadContainer, m_eventPayloadPending, m_eventChunkQueue,
                  enqueued, alive, recvLog, respLog, evLog, freeLog, closeLog>>

\* case ProcessPayload, command QueryProvidersRequest (lines 99-103)
ProcessQueryProviders ==
    /\ Running
    /\ m_state = "ProcessPayload"
    /\ m_payloadContainer.command = "QueryProvidersRequest"
    /\ \E built \in BuildQueryProvidersResponse(kInvalidBlockId) :
          LET h == HandleQueryProvidersRequest(m_payloadContainer, built)
          IN /\ m_payloadContainer' = h.container
             /\ m_state' = h.state
    /\ lastCall' = [NoCall EXCEPT !.op = "QueryProviders"]
    /\ UNCHANGED screenVars
    /\ UNCHANGED <<ProcessFrame, m_pUpdateBlock, openBlocks, allocLog, aborted, hung>>

\* case ProcessPayload, command AllocateProviderUpdatesRequest (lines 105-109)
ProcessAllocateProviderUpdates ==
    /\ Running
    /\ m_state = "ProcessPayload"
    /\ m_payloadContainer.command = "AllocateProviderUpdatesRequest"
    /\ \E opened \in OpenServerBlock(openBlocks) :
          LET h == HandleAllocateProviderUpdatesRequest(m_payloadContainer, m_pUpdateBlock,
                                                        openBlocks, opened)
          IN /\ m_payloadContainer' = h.container
             /\ m_state' = h.state
             /\ m_pUpdateBlock' = h.block
             /\ openBlocks' = h.open
             /\ allocLog' = Append(allocLog, [result  |-> h.container.result,
                                              blockId |-> h.container.blockId,
                                              held    |-> h.block,
                                              open    |-> h.open])
    /\ lastCall' = [NoCall EXCEPT !.op = "AllocateProviderUpdates"]
    /\ UNCHANGED screenVars
    /\ UNCHANGED <<ProcessFrame, aborted, hung>>

\* mutant: the handler closes the block it has walked
BlockAfterApply_Close(block, open) == [block |-> NullBlock, open |-> open \ {block}]

\* lines 174-203: the handler reads m_pUpdateBlock and calls neither
\* CloseServerBlock nor Release on it
BlockAfterApply(block, open) == [block |-> block, open |-> open]

\* the outcomes of ApplyProviderUpdate over one walk
ApplyInputs == (0..MaxApplyCalls) \X {"Error"}

\* case ProcessPayload, command ApplyProviderUpdatesRequest (lines 111-115)
ProcessApplyProviderUpdates ==
    /\ Running
    /\ m_state = "ProcessPayload"
    /\ m_payloadContainer.command = "ApplyProviderUpdatesRequest"
    /\ \E size \in 0..MaxBlockSize, ap \in ApplyInputs :
       \E next \in [0..(size - 1) -> 0..(MaxBlockSize + 1)] :
          LET dry == HandleApplyProviderUpdatesRequest(m_payloadContainer, m_pUpdateBlock,
                                                       FALSE, size, next, ap[1], ap[2])
          IN \E brk \in AssertOutcomes(dry.assertFailed) :
                LET h == IF brk
                         THEN HandleApplyProviderUpdatesRequest(m_payloadContainer,
                                  m_pUpdateBlock, TRUE, size, next, ap[1], ap[2])
                         ELSE dry
                IN /\ m_payloadContainer' = h.container
                   /\ m_state' = h.state
                   /\ aborted' = h.stopped
                   /\ hung' = h.hung
                   /\ lastCall' = [NoCall EXCEPT !.op = "ApplyProviderUpdates",
                                      !.assertFailed = h.assertFailed,
                                      !.walkSize = IF m_pUpdateBlock = NullBlock THEN 0 ELSE size,
                                      !.walkEnd = h.walk.byteOffset,
                                      !.applied = h.walk.applied,
                                      !.nexts = h.walk.nexts,
                                      !.results = h.walk.results]
    /\ m_pUpdateBlock' = BlockAfterApply(m_pUpdateBlock, openBlocks).block
    /\ openBlocks' = BlockAfterApply(m_pUpdateBlock, openBlocks).open
    /\ UNCHANGED screenVars
    /\ UNCHANGED <<ProcessFrame, allocLog>>

\* case ProcessPayload, default: DD_UNREACHABLE() (lines 117-119)
ProcessUnknownCommand ==
    /\ Running
    /\ m_state = "ProcessPayload"
    /\ m_payloadContainer.command \notin Requests
    /\ aborted' \in AssertOutcomes(TRUE)
    /\ lastCall' = [NoCall EXCEPT !.op = "UnknownCommand", !.assertFailed = TRUE]
    /\ UNCHANGED screenVars
    /\ UNCHANGED <<sessionVars, ProcessFrame, openBlocks, allocLog, hung>>

\* UpdateSession, case SessionState::SendPayload (lines 124-132)
UpdateSessionSend ==
    /\ Running
    /\ m_state = "SendPayload"
    /\ \E result \in Results :
          /\ m_state' = SendNext(result)
          /\ respLog' = IF result = "Success"
                        THEN Append(respLog, m_payloadContainer)
                        ELSE respLog
          /\ lastCall' = [NoCall EXCEPT !.op = "Send", !.sends = 1, !.sent = result]
    /\ UNCHANGED screenVars
    /\ UNCHANGED <<m_payloadContainer, m_eventPayloadContainer, m_eventPayloadPending,
                   m_pUpdateBlock, m_eventChunkQueue, openBlocks, enqueued, alive,
                   aborted, hung, recvLog, evLog, freeLog, allocLog, closeLog>>

UpdateSession(limit) ==
    \/ UpdateSessionReceive(limit)
    \/ UpdateSessionIdle
    \/ ProcessQueryProviders
    \/ ProcessAllocateProviderUpdates
    \/ ProcessApplyProviderUpdates
    \/ ProcessUnknownCommand
    \/ UpdateSessionSend

\* mutant: the destructor leaves the held block open
CloseHeldBlock_Leak(block, open) == open

\* ~EventServerSession (lines 56-62)
CloseHeldBlock(block, open) == IF block # NullBlock THEN open \ {block} ELSE open

Destroy ==
    /\ Running
    /\ alive' = FALSE
    /\ openBlocks' = CloseHeldBlock(m_pUpdateBlock, openBlocks)
    /\ closeLog' = IF m_pUpdateBlock # NullBlock THEN Append(closeLog, m_pUpdateBlock)
                   ELSE closeLog
    /\ lastCall' = [NoCall EXCEPT !.op = "Destroy"]
    /\ UNCHANGED screenVars
    /\ UNCHANGED <<sessionVars, m_eventChunkQueue, enqueued, aborted, hung,
                   recvLog, respLog, evLog, freeLog, allocLog>>

\* The control channel under load: up to MaxRequests requests while the producers
\* enqueue one chunk.
Next == Enqueue(1) \/ UpdateSession(MaxRequests) \/ Destroy

Spec == Init /\ [][Next]_vars

\* The event stream under load: up to MaxChunks chunks while the client sends one
\* request.
NextEvents == Enqueue(MaxChunks) \/ UpdateSession(1) \/ Destroy

SpecEvents == Init /\ [][NextEvents]_vars

\* The drain over a long chunk: one chunk of up to MaxSlices full messages and
\* one byte more, on a connection with no inbound request.
MaxLongChunk == MaxSlices * kMaxEventDataSize + 1

NextSlices == EnqueueSized(1, MaxLongChunk) \/ UpdateSessionIdle

SpecSlices == Init /\ [][NextSlices]_vars

\* The idle connection: ReceivePayload keeps returning NotReady while producers
\* enqueue chunks; UpdateSession is called again and again and the transport
\* does not fail for ever, so, while event data waits, a call whose sends all
\* return Success is eventually made. DrainAllSucceed is such a call, told by
\* its record: it received NotReady, sent, and its last Send returned Success
\* (any other result ends the drain, lines 252-257 and 286-290).
DrainAllSucceed ==
    /\ Running
    /\ m_state = "ReceivePayload"
    /\ m_eventPayloadPending \/ (m_eventChunkQueue # <<>>)
    /\ \E retry \in {"None", "Success"}, assertFailed \in BOOLEAN :
       \E sends \in 1..(1 + SendsNeeded(m_eventChunkQueue)) :
          lastCall' = [NoCall EXCEPT !.op = "Idle", !.recv = "NotReady",
                                     !.retry = retry, !.sends = sends,
                                     !.sent = "Success",
                                     !.assertFailed = assertFailed]

NextLive == Enqueue(MaxChunks) \/ UpdateSessionIdle

SpecLive == Init /\ [][NextLive]_vars /\ WF_lastCall(DrainAllSucceed)

\* The block's life: one request more than Spec and no event traffic, so that a
\* block can be allocated, applied and asked for again.
NextBlocks == UpdateSession(MaxRequests + 1) \/ Destroy

SpecBlocks == Init /\ [][NextBlocks]_vars

\* ------------------------------------------------------------ Screen
\* Pal::Amdgpu::Screen (amdgpuScreen.cpp): leasing a screen from the window system
Fds == 1..MaxFds

\* WindowSystem::AcquireScreenAccess(..., &m_drmMasterFd): it leases the output and
\* stores a newly opened DRM master fd, or fails and stores nothing
WindowSystemAcquireScreenAccess(open) ==
    {[result |-> "Success", fd |-> f] : f \in Fds \ open}
       \cup {[result |-> "ErrorUnknown", fd |-> InvalidFd]}

\* mutant: the window system is asked whether or not access is held
AcquireScreenAccess_NoGuard(fd, ws) ==
    [result |-> ws.result, fd |-> IF ws.fd # InvalidFd THEN ws.fd ELSE fd,
     called |-> TRUE]

\* Screen::AcquireScreenAccess (lines 253-271); ws is what the window system
\* answers if it is called
AcquireScreenAccessResult(fd, ws) ==
    IF fd = InvalidFd
    THEN [result |-> ws.result, fd |-> ws.fd, called |-> TRUE]
    ELSE [result |-> "ErrorPrivateScreenUsed", fd |-> fd, called |-> FALSE]

\* Screen::ReleaseScreenAccess (lines 274-287)
ReleaseScreenAccessResult(fd) ==
    IF fd # InvalidFd
    THEN [result |-> "Success", fd |-> InvalidFd, closed |-> <<fd>>]
    ELSE [result |-> "ErrorPrivateScreenNotEnabled", fd |-> fd, closed |-> <<>>]

ScreenFrame == <<m_state, m_payloadContainer, m_eventPayloadContainer,
                 m_eventPayloadPending, m_pUpdateBlock, m_eventChunkQueue, openBlocks,
                 enqueued, alive, aborted, hung, recvLog, respLog, evLog, freeLog,
                 allocLog, closeLog, lastCall>>

AcquireScreenAccess ==
    /\ Len(screenLog) < MaxScreenCalls
    /\ \E ws \in WindowSystemAcquireScreenAccess(osOpenFds) :
          LET a == AcquireScreenAccessResult(m_drmMasterFd, ws)
          IN /\ m_drmMasterFd' = a.fd
             /\ wsCalls' = IF a.called THEN wsCalls + 1 ELSE wsCalls
             /\ osOpenFds' = IF a.called /\ ws.fd # InvalidFd
                             THEN osOpenFds \cup {ws.fd} ELSE osOpenFds
             /\ screenLog' = Append(screenLog, [op |-> "Acquire", result |-> a.result])
    /\ UNCHANGED fdCloses
    /\ UNCHANGED ScreenFrame

ReleaseScreenAccess ==
    /\ Len(screenLog) < MaxScreenCalls
    /\ LET r == ReleaseScreenAccessResult(m_drmMasterFd)
       IN /\ m_drmMasterFd' = r.fd
          /\ fdCloses' = fdCloses \o r.closed
          /\ osOpenFds' = osOpenFds \ {r.closed[i] : i \in 1..Len(r.closed)}
          /\ screenLog' = Append(screenLog, [op |-> "Release", result |-> r.result])
    /\ UNCHANGED wsCalls
    /\ UNCHANGED ScreenFrame

NextScreen == AcquireScreenAccess \/ ReleaseScreenAccess

SpecScreen == Init /\ [][NextScreen]_vars

\* ================================================================ claims
ResponseOf(command) ==
    CASE command = "QueryProvidersRequest"          -> "QueryProvidersResponse"
      [] command = "AllocateProviderUpdatesRequest" -> "AllocateProviderUpdatesResponse"
      [] command = "ApplyProviderUpdatesRequest"    -> "ApplyProviderUpdatesResponse"
      [] OTHER                                      -> "None"

\* C1: requests and responses strictly alternate. The i-th response sent is the
\* response to the i-th request received; at most one request is unanswered;
\* no request is received (state ReceivePayload) while a response is outstanding;
\* and the outstanding response stays in the buffer, in state SendPayload, until
\* a send of it succeeds.
C1_Alternation ==
    /\ Len(respLog) <= Len(recvLog)
    /\ Len(recvLog) <= Len(respLog) + 1
    /\ \A i \in 1..Len(respLog) :
          /\ respLog[i].reqId = i
          /\ respLog[i].command = ResponseOf(recvLog[i])
    /\ (m_state = "ReceivePayload") => (Len(respLog) = Len(recvLog))
    /\ (m_state # "ReceivePayload") =>
          /\ Len(recvLog) = Len(respLog) + 1
          /\ m_payloadContainer.reqId = Len(recvLog)
    /\ (m_state = "SendPayload") =>
          m_payloadContainer.command = ResponseOf(recvLog[Len(recvLog)])

\* C1 witness: the second response is being retried after a send returned NotReady
C1_Witness ==
    /\ lastCall.op = "Send"
    /\ lastCall.sent = "NotReady"
    /\ m_state = "SendPayload"
    /\ Len(respLog) = 1
    /\ Len(recvLog) = 2

\* the EventDataUpdate messages of chunk id: those sent, then the pending one
MessagesOf(id) ==
    LET sent == SelectSeq(evLog, LAMBDA m : m.chunk = id)
    IN IF m_eventPayloadPending /\ (m_eventPayloadContainer.chunk = id)
       THEN Append(sent, m_eventPayloadContainer)
       ELSE sent

\* msgs covers the byte offsets 0 .. upTo-1 once each, in increasing order
Tiles(msgs, upTo) ==
    /\ \A i \in 1..Len(msgs) :
          /\ msgs[i].size > 0
          /\ msgs[i].offset = (IF i = 1 THEN 0 ELSE msgs[i-1].offset + msgs[i-1].size)
    /\ upTo = (IF msgs = <<>> THEN 0 ELSE msgs[Len(msgs)].offset + msgs[Len(msgs)].size)

FreedIds  == {freeLog[i].chunk : i \in 1..Len(freeLog)}
QueuedIds == {m_eventChunkQueue[i].id : i \in 1..Len(m_eventChunkQueue)}

\* C2: whatever the send results were, the messages sent with Success for a chunk,
\* followed by the pending message when it belongs to the chunk, cover the chunk's
\* bytes up to its cursor once each (no duplication, no loss); a chunk is freed
\* once; and a freed chunk with no message pending has had exactly dataSize bytes
\* delivered.
C2_ExactlyOnce ==
    /\ \A i \in 1..Len(m_eventChunkQueue) :
          Tiles(MessagesOf(m_eventChunkQueue[i].id), m_eventChunkQueue[i].bytesSent)
    /\ \A i \in 1..Len(freeLog) :
          /\ Tiles(MessagesOf(freeLog[i].chunk), freeLog[i].dataSize)
          /\ ~(m_eventPayloadPending /\ m_eventPayloadContainer.chunk = freeLog[i].chunk)
                => BytesOf(evLog, freeLog[i].chunk) = freeLog[i].dataSize
          /\ \A j \in 1..Len(freeLog) : (freeLog[j].chunk = freeLog[i].chunk) => (j = i)
    /\ FreedIds \cap QueuedIds = {}
    /\ FreedIds \cup QueuedIds = 1..enqueued

\* C2 witness: a two-message chunk was freed while its last slice was pending
\* (NotReady), and the retry then delivered it
C2_Witness ==
    \E i \in 1..Len(freeLog) :
        /\ freeLog[i].held > 0
        /\ freeLog[i].dataSize > kMaxEventDataSize
        /\ ~m_eventPayloadPending
        /\ BytesOf(evLog, freeLog[i].chunk) = freeLog[i].dataSize

\* C3: the session never has more than one block open in the transfer manager
C3_AtMostOneBlock == Cardinality(openBlocks) <= 1

\* C3 witness: a second AllocateProviderUpdatesRequest was handled with a block open
C3_Witness ==
    /\ Cardinality(openBlocks) = 1
    /\ Len(allocLog) = 2
    /\ allocLog[1].held # NullBlock

\* C4: once an AllocateProviderUpdatesRequest has opened a block (Success, with
\* the id of the block opened), every later one answers Error with the invalid
\* block id, opens nothing and leaves the session holding the same block.
C4_SecondAllocateFails ==
    \A i \in 1..Len(allocLog) :
        /\ (allocLog[i].held # NullBlock /\ \A j \in 1..(i-1) : allocLog[j].held = NullBlock)
              => /\ allocLog[i].result = "Success"
                 /\ allocLog[i].blockId = allocLog[i].held
                 /\ allocLog[i].open = {allocLog[i].held}
        /\ \A j \in (i+1)..Len(allocLog) :
              (allocLog[i].result = "Success")
                  => /\ allocLog[j].result = "Error"
                     /\ allocLog[j].blockId = kInvalidBlockId
                     /\ allocLog[j].held = allocLog[i].held
                     /\ allocLog[j].open = allocLog[i].open

\* C4 witness: two allocations in a row, the first Success and the second Error
C4_Witness ==
    /\ Len(allocLog) = 2
    /\ allocLog[1].result = "Success"
    /\ allocLog[2].result = "Error"
    /\ m_pUpdateBlock = allocLog[1].blockId

\* C5 as stated: a chunk is freed only when sends that returned Success have
\* covered all of its dataSize bytes
C5_FreedOnlyWhenConfirmed ==
    \A i \in 1..Len(freeLog) : freeLog[i].confirmed = freeLog[i].dataSize

\* C5 amended: a chunk is freed only when every byte of it was either sent with
\* Success or sits in the pending event message (one slice at most), which the
\* next drains re-send
C5_FreedWhenConfirmedOrPending ==
    \A i \in 1..Len(freeLog) :
        /\ freeLog[i].confirmed + freeLog[i].held = freeLog[i].dataSize
        /\ freeLog[i].held <= kMaxEventDataSize

\* C5 witness: a chunk was freed while its completing slice was still pending
C5_Witness ==
    \E i \in 1..Len(freeLog) :
        /\ freeLog[i].held > 0
        /\ freeLog[i].confirmed < freeLog[i].dataSize

\* C6: a chunk is popped from the queue only with bytesSent = dataSize
C6_PopOnlyWhenCursorAtEnd ==
    \A i \in 1..Len(freeLog) : freeLog[i].bytesSent = freeLog[i].dataSize

\* C6 witness: a chunk was popped by a drain whose last send returned NotReady,
\* while another chunk waits in the queue
C6_Witness ==
    /\ lastCall.op = "Idle"
    /\ lastCall.sent = "NotReady"
    /\ Len(freeLog) >= 1
    /\ freeLog[Len(freeLog)].held > 0
    /\ m_eventChunkQueue # <<>>

\* C7: a drain that starts with the pending flag set re-sends the pending message
\* first and verbatim; when that re-send does not succeed it is the only send and
\* the queue, the cursors, the event buffer and the flag stay as they were.
C7_RetryFirst ==
    [][ (m_eventPayloadPending /\ lastCall'.op = "Idle" /\ lastCall'.recv = "NotReady")
          => /\ lastCall'.sends >= 1
             /\ lastCall'.retry # "None"
             /\ (lastCall'.retry = "Success")
                   => /\ Len(evLog') > Len(evLog)
                      /\ evLog'[Len(evLog) + 1] = m_eventPayloadContainer
             /\ (lastCall'.retry # "Success")
                   => /\ lastCall'.sends = 1
                      /\ UNCHANGED <<m_eventChunkQueue, m_eventPayloadContainer,
                                     m_eventPayloadPending, evLog, freeLog>> ]_vars

\* C7 witness: the re-send failed while a chunk with bytes left waits in the queue
C7_Witness ==
    /\ lastCall.op = "Idle"
    /\ lastCall.retry \in Failures
    /\ m_eventPayloadPending
    /\ m_eventChunkQueue # <<>>
    /\ Head(m_eventChunkQueue).bytesSent < Head(m_eventChunkQueue).dataSize

\* C8 as stated: an ApplyProviderUpdates walk that ends with its cursor different
\* from the block's size answers with a status other than Success, and applies no
\* record at or beyond the block's size
C8_MismatchFails ==
    (/\ lastCall.op = "ApplyProviderUpdates"
     /\ m_pUpdateBlock # NullBlock
     /\ m_state = "SendPayload"
     /\ lastCall.walkEnd # lastCall.walkSize)
        => /\ m_payloadContainer.result # "Success"
           /\ \A i \in 1..Len(lastCall.applied) : lastCall.applied[i] < lastCall.walkSize

\* C9 as stated: every UpdateSession call returns
C9_EveryCallReturns == ~hung

\* C10 as stated: ReceivePayload returned NotReady with the event queue empty:
\* nothing is sent and the session is as it was
C10_IdleEmptyQueueUnchanged ==
    [][ (lastCall'.op = "Idle" /\ lastCall'.recv = "NotReady" /\ m_eventChunkQueue = <<>>)
          => /\ m_state' = "ReceivePayload"
             /\ lastCall'.sends = 0
             /\ UNCHANGED <<sessionVars, m_eventChunkQueue, evLog, respLog, freeLog,
                            openBlocks>> ]_vars

\* C10 amended: ReceivePayload returned NotReady with the event queue empty and no
\* event message pending: nothing is sent and the session is as it was
C10_IdleNothingPendingUnchanged ==
    [][ (/\ lastCall'.op = "Idle"
         /\ lastCall'.recv = "NotReady"
         /\ m_eventChunkQueue = <<>>
         /\ ~m_eventPayloadPending)
          => /\ m_state' = "ReceivePayload"
             /\ lastCall'.sends = 0
             /\ UNCHANGED <<sessionVars, m_eventChunkQueue, evLog, respLog, freeLog,
                            openBlocks>> ]_vars

\* C10 witness: an idle call with nothing to send, after a chunk was streamed and
\* with the stale last message still in the event buffer
C10_Witness ==
    /\ lastCall.op = "Idle"
    /\ lastCall.recv = "NotReady"
    /\ lastCall.sends = 0
    /\ m_eventChunkQueue = <<>>
    /\ ~m_eventPayloadPending
    /\ Len(freeLog) >= 1
    /\ m_eventPayloadContainer # EmptyEvent

\* the EventDataUpdate messages a chunk of dataSize bytes is cut into
SlicesOf(id, dataSize) ==
    LET count == (dataSize + kMaxEventDataSize - 1) \div kMaxEventDataSize
    IN [i \in 1..count |->
          [chunk  |-> id,
           offset |-> (i - 1) * kMaxEventDataSize,
           size   |-> IF i < count THEN kMaxEventDataSize
                      ELSE dataSize - kMaxEventDataSize * (count - 1)]]

\* the drain call just made found every Send it made succeed
AllSendsSucceeded(call) ==
    /\ call.op = "Idle"
    /\ call.recv = "NotReady"
    /\ call.sends >= 1
    /\ call.sent = "Success"

\* C11: with no earlier send left unconfirmed, a drain whose sends all succeed
\* sends, for every chunk that waits in the queue, exactly ceil(dataSize / kMaxEventDataSize) messages, in
\* increasing offset order, each of kMaxEventDataSize bytes but the last, which
\* carries the rest; the chunk is then popped and freed with all its bytes
\* confirmed. A chunk of kMaxEventDataSize + 1 bytes (the 1000 over 512 case) gives
\* two messages, of kMaxEventDataSize bytes and of 1 byte.
C11_SlicesOfChunk ==
    [][ (~m_eventPayloadPending /\ AllSendsSucceeded(lastCall'))
          => \A i \in 1..Len(m_eventChunkQueue) :
                LET c == m_eventChunkQueue[i]
                IN (c.bytesSent = 0)
                      => /\ SelectSeq(evLog', LAMBDA m : m.chunk = c.id)
                               = SlicesOf(c.id, c.dataSize)
                         /\ \E j \in 1..Len(freeLog') :
                               /\ freeLog'[j].chunk = c.id
                               /\ freeLog'[j].confirmed = c.dataSize
                               /\ freeLog'[j].held = 0
                         /\ c.id \notin {m_eventChunkQueue'[j].id :
                                            j \in 1..Len(m_eventChunkQueue')} ]_vars

\* C11 witness: a chunk of MaxSlices full messages and one byte was streamed by
\* one drain in MaxSlices + 1 messages
C11_Witness ==
    /\ AllSendsSucceeded(lastCall)
    /\ lastCall.retry = "None"
    /\ lastCall.sends = MaxSlices + 1
    /\ Len(freeLog) = 1
    /\ freeLog[1].dataSize = MaxLongChunk
    /\ Len(evLog) = MaxSlices + 1
    /\ evLog[Len(evLog)].size = 1

Handlers == {"QueryProviders", "AllocateProviderUpdates", "ApplyProviderUpdates"}

\* C12: every request handler returns with the session in SendPayload and a
\* well-formed response in the payload buffer, whatever the operation's result: the
\* response command answers the request, the status is a Result, and a failed
\* QueryProviders carries the invalid block id. (It does not hold: an
\* ApplyProviderUpdates walk may never return, or stop in its assertion.)
C12_HandlersAlwaysRespond ==
    (lastCall.op \in Handlers)
       => /\ ~hung
          /\ ~aborted
          /\ m_state = "SendPayload"
          /\ m_payloadContainer.command = ResponseOf(recvLog[Len(recvLog)])
          /\ m_payloadContainer.result \in Results
          /\ ((lastCall.op = "QueryProviders" /\ m_payloadContainer.result # "Success")
                 => m_payloadContainer.blockId = kInvalidBlockId)

\* C13: destroying the session closes the block it holds exactly once and closes
\* nothing when it holds none; no block of the session stays open afterwards, and
\* nothing is closed while the session lives.
C13_DestroyClosesHeldBlock ==
    /\ alive => closeLog = <<>>
    /\ ~alive => /\ openBlocks = {}
                 /\ closeLog = IF m_pUpdateBlock # NullBlock
                               THEN <<m_pUpdateBlock>> ELSE <<>>

\* C13 witness: a session holding an open block was destroyed
C13_Witness ==
    /\ ~alive
    /\ lastCall.op = "Destroy"
    /\ m_pUpdateBlock # NullBlock
    /\ closeLog = <<m_pUpdateBlock>>
    /\ \E i \in 1..Len(allocLog) : allocLog[i].held = m_pUpdateBlock

\* C14: event data is sent, retried, cut or freed only by a call that starts in
\* ReceivePayload and whose receive returned NotReady; a call that starts in
\* ProcessPayload or SendPayload sends no EventDataUpdate and leaves the event
\* buffer, the pending flag, the queue cursors and the chunk pool alone.
C14_DrainOnlyWhenIdle ==
    [][ ( \/ evLog' # evLog
          \/ freeLog' # freeLog
          \/ m_eventPayloadContainer' # m_eventPayloadContainer
          \/ m_eventPayloadPending' # m_eventPayloadPending
          \/ (lastCall'.op # "Enqueue" /\ m_eventChunkQueue' # m_eventChunkQueue)
          \/ (lastCall'.op # "Send" /\ lastCall'.sends > 0) )
        => /\ m_state = "ReceivePayload"
           /\ m_state' = "ReceivePayload"
           /\ lastCall'.op = "Idle"
           /\ lastCall'.recv = "NotReady" ]_vars

\* C14 witness: a response was sent while a slice was pending and a chunk was
\* queued, and the call sent nothing of the event stream
C14_Witness ==
    /\ lastCall.op = "Send"
    /\ lastCall.sent = "Success"
    /\ m_eventPayloadPending
    /\ m_eventChunkQueue # <<>>
    /\ evLog = <<>>

\* chunk c has left the queue, is back in the pool, and all its bytes were sent
Delivered(c) ==
    /\ c \notin QueuedIds
    /\ \E i \in 1..Len(freeLog) :
          /\ freeLog[i].chunk = c
          /\ BytesOf(evLog, c) = freeLog[i].dataSize

\* C15: on an idle connection where UpdateSession keeps being called and sends
\* eventually succeed, every chunk placed in the queue is eventually transmitted in
\* full, removed from the queue and returned to the pool. (It does not hold: a
\* chunk whose last slice met Error or EndOfStream stays queued with nothing
\* remaining, and the next drain stops in its bytesRemaining assertion.)
C15_EveryChunkDelivered ==
    \A c \in 1..MaxChunks : (c \in QueuedIds) ~> Delivered(c)

\* the same with the runs that stop in an assertion put aside
C15_DeliveredUnlessStopped ==
    \A c \in 1..MaxChunks : (c \in QueuedIds) ~> (Delivered(c) \/ aborted)

\* the last drain built a new slice whose Send returned Error or EndOfStream
FreshSliceFailed ==
    /\ lastCall.op = "Idle"
    /\ lastCall.retry \in {"None", "Success"}
    /\ lastCall.sent \in {"Error", "EndOfStream"}

\* C16 as stated: after a new slice's Send returned Error or EndOfStream the chunk
\* is still at the front of the queue and its cursor is what it was before the
\* slice was attempted, that is, the bytes of the chunk sent so far.
C16_CursorUntouched ==
    FreshSliceFailed
       => /\ m_eventChunkQueue # <<>>
          /\ Head(m_eventChunkQueue).id = m_eventPayloadContainer.chunk
          /\ Head(m_eventChunkQueue).bytesSent
                = BytesOf(evLog, Head(m_eventChunkQueue).id)

\* C16: after a new slice's Send returned Error or EndOfStream the loop has stopped
\* and the chunk is still at the front of the queue, not freed, even when the slice
\* was its last; its cursor stays advanced past the slice, which is kept in the
\* event buffer with the pending flag set for the next drain to re-send.
C16_CursorPastPendingSlice ==
    FreshSliceFailed
       => /\ m_eventChunkQueue # <<>>
          /\ Head(m_eventChunkQueue).id = m_eventPayloadContainer.chunk
          /\ Head(m_eventChunkQueue).id \notin FreedIds
          /\ m_eventPayloadPending
          /\ m_eventPayloadContainer.size > 0
          /\ m_eventPayloadContainer.offset = BytesOf(evLog, Head(m_eventChunkQueue).id)
          /\ Head(m_eventChunkQueue).bytesSent
                = m_eventPayloadContainer.offset + m_eventPayloadContainer.size

\* C16 witness: the Send of the second slice of a chunk returned Error
C16_Witness ==
    /\ FreshSliceFailed
    /\ lastCall.sent = "Error"
    /\ lastCall.sends = 2
    /\ m_eventPayloadContainer.offset = kMaxEventDataSize
    /\ Head(m_eventChunkQueue).bytesSent = Head(m_eventChunkQueue).dataSize

\* C17: no chunk waits in the queue with its cursor at its size, so the drain
\* never meets a front chunk with nothing remaining and its bytesRemaining
\* assertion never fails. (It does not hold: Error or EndOfStream on the last
\* slice of a chunk leaves it queued with bytesSent = dataSize.)
C17_FrontChunkHasBytesRemaining ==
    /\ \A i \in 1..Len(m_eventChunkQueue) :
          m_eventChunkQueue[i].bytesSent < m_eventChunkQueue[i].dataSize
    /\ ~(lastCall.op = "Idle" /\ lastCall.assertFailed)

\* the last call sent the response and Send returned Error or EndOfStream
ResponseSendFailed ==
    /\ lastCall.op = "Send"
    /\ lastCall.sent \in {"Error", "EndOfStream"}

\* C18 as stated: a Send of the response that returns Error or EndOfStream is
\* fatal, the session stops instead of staying in SendPayload.
C18_FailedSendIsFatal == ResponseSendFailed => aborted

\* C18: a Send of the response that returns Error or EndOfStream is handled like
\* NotReady: nothing stops, the session stays in SendPayload with the response in
\* its buffer, the next UpdateSession call sends the same response again, and the
\* session returns to ReceivePayload once a Send returns Success.
C18_FailedSendIsRetried ==
    [][ ResponseSendFailed
          => /\ ~aborted
             /\ m_state = "SendPayload"
             /\ m_payloadContainer.command = ResponseOf(recvLog[Len(recvLog)])
             /\ (lastCall'.op \notin {"Enqueue", "Destroy"})
                   => /\ lastCall'.op = "Send"
                      /\ m_payloadContainer' = m_payloadContainer
                      /\ m_state' = (IF lastCall'.sent = "Success"
                                     THEN "ReceivePayload" ELSE "SendPayload")
                      /\ respLog' = (IF lastCall'.sent = "Success"
                                     THEN Append(respLog, m_payloadContainer)
                                     ELSE respLog) ]_vars

\* C18 witness: the Send of a response returned EndOfStream and the session goes on
C18_Witness ==
    /\ ResponseSendFailed
    /\ lastCall.sent = "EndOfStream"
    /\ m_state = "SendPayload"
    /\ ~aborted
    /\ m_payloadContainer.command = "ApplyProviderUpdatesResponse"

EventStream == <<m_eventPayloadContainer, m_eventPayloadPending, m_eventChunkQueue,
                 evLog, freeLog>>

\* C19: in ReceivePayload the receive result alone decides the step. Success moves
\* to ProcessPayload and the drain is not run; NotReady stays and runs the drain
\* (which sends whenever a slice is pending or a chunk is queued); EndOfStream and
\* Error stay and do not run the drain: nothing is sent and the event buffer, the
\* pending flag, the queue and its cursors are unchanged.
C19_ReceiveResultDecides ==
    [][ /\ (lastCall'.op \in {"Receive", "Idle"}) => m_state = "ReceivePayload"
        /\ (lastCall'.op = "Receive")
              => /\ lastCall'.recv = "Success"
                 /\ m_state' = "ProcessPayload"
                 /\ lastCall'.sends = 0
                 /\ UNCHANGED EventStream
        /\ (lastCall'.op = "Idle")
              => /\ lastCall'.recv \in Failures
                 /\ m_state' = "ReceivePayload"
        /\ (lastCall'.op = "Idle" /\ lastCall'.recv = "NotReady")
              => ((m_eventPayloadPending \/ m_eventChunkQueue # <<>>)
                     <=> lastCall'.sends >= 1)
        /\ (lastCall'.op = "Idle" /\ lastCall'.recv \in {"EndOfStream", "Error"})
              => /\ lastCall'.sends = 0
                 /\ UNCHANGED EventStream ]_vars

\* C19 witness: a receive returned Error while a slice was pending and a chunk was
\* queued
C19_Witness ==
    /\ lastCall.op = "Idle"
    /\ lastCall.recv = "Error"
    /\ m_state = "ReceivePayload"
    /\ m_eventPayloadPending
    /\ m_eventChunkQueue # <<>>

\* C20: ApplyProviderUpdates hands the records of the held block to
\* ApplyProviderUpdate in block order: the first is at offset 0, each next one at
\* the previous offset plus the previous record's next-record offset, all inside
\* the block. The walk stops at the first call that fails: no call follows a
\* failed one and the response carries that failure; with no failure it goes on
\* to the end of the block. With no block held nothing is applied and the
\* response carries Error.
C20_WalkInOrderUntilFailure ==
    (lastCall.op = "ApplyProviderUpdates")
       => LET a  == lastCall.applied
              nx == lastCall.nexts
              rs == lastCall.results
              n  == Len(lastCall.applied)
          IN /\ Len(nx) = n
             /\ Len(rs) = n
             /\ \A i \in 1..n :
                   /\ a[i] = (IF i = 1 THEN 0 ELSE a[i-1] + nx[i-1])
                   /\ a[i] < lastCall.walkSize
                   /\ (i < n) => (rs[i] = "Success")
             /\ (n > 0 /\ rs[n] # "Success")
                   => /\ m_state = "SendPayload"
                      /\ m_payloadContainer.command = "ApplyProviderUpdatesResponse"
                      /\ m_payloadContainer.result = rs[n]
             /\ (m_state = "SendPayload" /\ (n = 0 \/ rs[n] = "Success"))
                   => /\ m_payloadContainer.result
                            = (IF m_pUpdateBlock = NullBlock THEN "Error" ELSE "Success")
                      /\ lastCall.walkEnd >= lastCall.walkSize
             /\ (m_pUpdateBlock = NullBlock)
                   => /\ n = 0
                      /\ m_state = "SendPayload"
                      /\ m_payloadContainer.result = "Error"

\* C20 witness: the second record of a block failed to apply and the response
\* carries that failure
C20_Witness ==
    /\ lastCall.op = "ApplyProviderUpdates"
    /\ lastCall.applied = <<0, 1>>
    /\ lastCall.results = <<"Success", "Error">>
    /\ lastCall.walkSize > lastCall.walkEnd
    /\ m_state = "SendPayload"
    /\ m_payloadContainer.result = "Error"

\* a response to ApplyProviderUpdates with status Success has been sent
ApplySucceeded ==
    \E i \in 1..Len(respLog) :
       /\ respLog[i].command = "ApplyProviderUpdatesResponse"
       /\ respLog[i].result = "Success"

\* C21: ApplyProviderUpdates leaves the session's block as it is, open and the
\* same, whatever its result; a held block is never replaced and stays open until
\* the session is destroyed; and AllocateProviderUpdates handled with a block
\* held, after a successful Apply in particular, answers Error with the invalid
\* block id.
C21_ApplyKeepsBlock ==
    [][ /\ (lastCall'.op = "ApplyProviderUpdates")
              => UNCHANGED <<m_pUpdateBlock, openBlocks>>
        /\ (m_pUpdateBlock # NullBlock)
              => /\ m_pUpdateBlock' = m_pUpdateBlock
                 /\ (lastCall'.op # "Destroy") => UNCHANGED openBlocks
                 /\ (lastCall'.op = "Destroy") => (openBlocks' = openBlocks \ {m_pUpdateBlock})
        /\ (lastCall'.op = "AllocateProviderUpdates"
               /\ (ApplySucceeded \/ m_pUpdateBlock # NullBlock))
              => /\ m_pUpdateBlock # NullBlock
                 /\ m_payloadContainer'.command = "AllocateProviderUpdatesResponse"
                 /\ m_payloadContainer'.result = "Error"
                 /\ m_payloadContainer'.blockId = kInvalidBlockId ]_vars

\* C21 witness: a block was allocated, an Apply over it answered Success, and a
\* further AllocateProviderUpdates was answered Error with the same block held
C21_Witness ==
    /\ lastCall.op = "AllocateProviderUpdates"
    /\ ApplySucceeded
    /\ Len(allocLog) = 2
    /\ allocLog[1].result = "Success"
    /\ allocLog[2].result = "Error"
    /\ m_pUpdateBlock = allocLog[1].held
    /\ m_pUpdateBlock \in openBlocks

\* the bytes of a message or of a whole chunk, each named by chunk and position
BytesFrom(id, offset, size) == [i \in 1..size |-> <<id, offset + i - 1>>]

RECURSIVE SentBytes(_)
SentBytes(ev) ==
    IF ev = <<>> THEN <<>>
    ELSE BytesFrom(ev[1].chunk, ev[1].offset, ev[1].size) \o SentBytes(Tail(ev))

\* dataSize of an enqueued chunk, read where the chunk is now
SizeOfChunk(id) ==
    IF id \in QueuedIds
    THEN (CHOOSE c \in {m_eventChunkQueue[i] : i \in 1..Len(m_eventChunkQueue)} :
             c.id = id).dataSize
    ELSE (CHOOSE f \in {freeLog[i] : i \in 1..Len(freeLog)} : f.chunk = id).dataSize

RECURSIVE ProducedBytes(_)
ProducedBytes(upTo) ==
    IF upTo = 0 THEN <<>>
    ELSE ProducedBytes(upTo - 1) \o BytesFrom(upTo, 0, SizeOfChunk(upTo))

IsPrefix(a, b) ==
    /\ Len(a) <= Len(b)
    /\ \A i \in 1..Len(a) : a[i] = b[i]

\* C22: the bytes of the EventDataUpdate messages sent with Success, put end to
\* end, are a prefix of the bytes of the chunks in the order they were enqueued,
\* whatever the send results were, with chunks enqueued between drains and with
\* pending messages sent again.
C22_BytesInProductionOrder ==
    /\ \A id \in 1..enqueued : id \in (QueuedIds \cup FreedIds)
    /\ IsPrefix(SentBytes(evLog), ProducedBytes(enqueued))

\* C22 witness: the first chunk was freed with its last slice pending, that slice
\* was sent again with Success, and bytes of the second chunk followed it
C22_Witness ==
    /\ Len(freeLog) >= 1
    /\ freeLog[1].held > 0
    /\ lastCall.op = "Idle"
    /\ lastCall.retry = "Success"
    /\ \E i \in 1..Len(evLog) : evLog[i].chunk = 2
    /\ SentBytes(evLog) = ProducedBytes(enqueued)
    /\ enqueued = MaxChunks

\* the Screen call made by this step
ScreenCall(op) ==
    /\ Len(screenLog') = Len(screenLog) + 1
    /\ screenLog'[Len(screenLog')].op = op

ScreenResult == screenLog'[Len(screenLog')].result

\* C23: screen access is exclusive per Screen. AcquireScreenAccess with the DRM
\* master fd valid returns ErrorPrivateScreenUsed, does not call the window system
\* and leaves the fd as it is; with the fd invalid it calls the window system.
\* ReleaseScreenAccess with the fd invalid returns ErrorPrivateScreenNotEnabled and
\* changes nothing; with the fd valid it closes that fd once, resets it to
\* InvalidFd and returns Success. At most one fd is open for the Screen, and it is
\* the one the Screen holds.
C23_ScreenAccessExclusive ==
    [][ /\ (ScreenCall("Acquire") /\ m_drmMasterFd # InvalidFd)
              => /\ ScreenResult = "ErrorPrivateScreenUsed"
                 /\ UNCHANGED <<m_drmMasterFd, wsCalls, osOpenFds, fdCloses>>
        /\ (ScreenCall("Acquire") /\ m_drmMasterFd = InvalidFd)
              => /\ wsCalls' = wsCalls + 1
                 /\ ScreenResult # "ErrorPrivateScreenUsed"
                 /\ (ScreenResult = "Success") <=> (m_drmMasterFd' # InvalidFd)
                 /\ UNCHANGED fdCloses
        /\ (ScreenCall("Release") /\ m_drmMasterFd = InvalidFd)
              => /\ ScreenResult = "ErrorPrivateScreenNotEnabled"
                 /\ UNCHANGED <<m_drmMasterFd, wsCalls, osOpenFds, fdCloses>>
        /\ (ScreenCall("Release") /\ m_drmMasterFd # InvalidFd)
              => /\ ScreenResult = "Success"
                 /\ m_drmMasterFd' = InvalidFd
                 /\ fdCloses' = Append(fdCloses, m_drmMasterFd)
                 /\ osOpenFds' = {}
                 /\ UNCHANGED wsCalls
        /\ osOpenFds' = (IF m_drmMasterFd' = InvalidFd THEN {} ELSE {m_drmMasterFd'}) ]_vars

\* C23 witness: access was acquired, a second Acquire was refused, Release gave
\* the access up, a second Release was refused, and Acquire succeeded again
C23_Witness ==
    /\ screenLog = << [op |-> "Acquire", result |-> "Success"],
                      [op |-> "Acquire", result |-> "ErrorPrivateScreenUsed"],
                      [op |-> "Release", result |-> "Success"],
                      [op |-> "Release", result |-> "ErrorPrivateScreenNotEnabled"],
                      [op |-> "Acquire", result |-> "Success"] >>
    /\ wsCalls = 2
    /\ Len(fdCloses) = 1
    /\ m_drmMasterFd # InvalidFd

====
